---- MODULE Spec2Model ----
(***************************************************************************)
(* The database-connection lifecycle of the TechAssist API: the cached     *)
(* connection, the single-flight connector, the request gate and the       *)
(* health / diagnostics endpoints, in the two server variants of the       *)
(* repository:                                                             *)
(*   "guarded" : src/unnamed/part_000 (isConnecting guard, health exempt)  *)
(*   "plain"   : src/server.js        (no guard, every request gated)      *)
(*                                                                         *)
(* Node runs the handlers on one event loop.  A task that is at a          *)
(* synchronous position (SyncPcs) holds the loop: no other task and no     *)
(* driver event can take a step until it suspends at an await or ends.     *)
(* Continuations of a settled promise (microtasks) run before any timer,   *)
(* socket event or new request (macrotasks).                               *)
(*                                                                         *)
(* Mongoose is outside the repository and is modelled by what the code     *)
(* observes of it: mongoose.connection.readyState (0 disconnected,         *)
(* 1 connected, 2 connecting, 3 disconnecting), the promise of             *)
(* mongoose.connect and of mongoose.disconnect.  A mongoose.connect call    *)
(* made while the connection is already connecting either joins the        *)
(* pending attempt or resolves at once with the connection as it is,       *)
(* depending on the Mongoose release; both are modelled.  The driver sets  *)
(* readyState and settles the promise in one turn; an established session  *)
(* may leave state 1 at any turn of the loop.  The value mongoose.connect  *)
(* resolves to is modelled as the number of the session it established,    *)
(* so that two handles can be told apart.                                  *)
(*                                                                         *)
(* A finished request keeps only the count of responses it sent; its       *)
(* response is visible in the one state between Respond and End.           *)
(***************************************************************************)
EXTENDS Integers, FiniteSets

\* Number of HTTP requests the process receives.
NumRequests == 2

\* cachedConnection = null
NoHandle == 0

\* The task of the app.listen callback; the requests are 1..NumRequests.
Listen == 0

Requests == 1..NumRequests
Tasks == {Listen} \cup Requests

\* Request kinds: method and path (and the db query flag of /api/health).
\*   health     GET  /api/health
\*   healthdb   GET  /api/health?db=true
\*   healthpost POST /api/health
\*   dbtest     GET  /api/db-test
\*   contacts   any  /api/contacts/...
Routes == {"health", "healthdb", "healthpost", "dbtest", "contacts"}

\* Positions at which a task is running synchronously.
SyncPcs == {"gate", "call", "try", "catch", "ret", "thrown", "dispatch",
            "pinged", "responded"}

\* Positions inside the attempt section of connectToDatabase: after the busy
\* flag is set, through the awaited teardown and connect, up to the point at
\* which the flag is cleared.
AttemptPcs == {"try", "awaitDisconnect", "awaitConnect", "awaitNow", "catch"}

NoResp == [status |-> 0, success |-> FALSE, message |-> "none",
           detail |-> "none", database |-> "none"]

VARIABLES
  variant,          \* which server file runs: "guarded" or "plain"
  hasUri,           \* process.env.MONGODB_URI is set
  production,       \* process.env.NODE_ENV === 'production'
  cachedConnection, \* NoHandle or the handle of the session last established
  isConnecting,     \* the busy flag (always FALSE in the plain variant)
  readyState,       \* mongoose.connection.readyState: 0..3
  drv,              \* the driver's connect promise: idle, pending, ok, fail
  session,          \* number of the physical attempt the driver runs/ran last
  pc,               \* position of each task
  route,            \* request kind of each task ("none" before arrival)
  site,             \* call site of the task's current connectToDatabase call
  err,              \* error the task is handling ("none" if none)
  got,              \* handle the task's last connectToDatabase call returned
  nextCalled,       \* the gate called next() for this request
  resp,             \* response sent for the request (NoResp if none)
  sent,             \* number of responses sent for the request
  crashed,          \* the process ended on an unhandled rejection
  tries,            \* history: mongoose.connect calls of the current top-level call
  cold,             \* history: the task's current call began before any call resolved, cache empty
  anyResolved,      \* history: some connectToDatabase call has resolved
  batchCalls,       \* history: number of cold calls begun
  batchConnects,    \* history: mongoose.connect calls made by cold calls
  batchFails,       \* history: cold calls rejected by a driver error
  batchResults,     \* history: outcomes of the resolved cold calls
  batchLost         \* history: the session was lost while a cold call was pending

vars == <<variant, hasUri, production, cachedConnection, isConnecting,
          readyState, drv, session, pc, route, site, err, got, nextCalled,
          resp, sent, crashed, tries, cold,
          anyResolved, batchCalls, batchConnects, batchFails, batchResults,
          batchLost>>

envVars == <<variant, hasUri, production>>
connVars == <<cachedConnection, isConnecting, readyState, drv, session>>
httpVars == <<route, nextCalled, resp, sent>>
histVars == <<tries, cold, anyResolved,
              batchCalls, batchConnects, batchFails, batchResults, batchLost>>

----------------------------------------------------------------------------
\* Event-loop scheduling.

\* Some task holds the event loop.
Running == \E t \in Tasks : pc[t] \in SyncPcs

\* A continuation of the settled connect promise is still queued.
MicrotasksPending ==
  \E t \in Tasks :
    \/ pc[t] = "awaitConnect" /\ drv \in {"ok", "fail"}
    \/ pc[t] = "awaitNow"

\* The loop may take the next macrotask (request, timer, socket event).
LoopIdle == ~crashed /\ ~Running /\ ~MicrotasksPending

\* Task t may take its next synchronous step.
Holds(t, p) == ~crashed /\ pc[t] = p

Init ==
  /\ variant \in {"guarded", "plain"}
  /\ hasUri \in BOOLEAN
  /\ production \in BOOLEAN
  /\ cachedConnection = NoHandle
  /\ isConnecting = FALSE
  /\ readyState = 0
  /\ drv = "idle"
  /\ session = 0
  /\ pc = [t \in Tasks |-> "new"]
  /\ route = [t \in Tasks |-> "none"]
  /\ site = [t \in Tasks |-> "none"]
  /\ err = [t \in Tasks |-> "none"]
  /\ got = [t \in Tasks |-> NoHandle]
  /\ nextCalled = [t \in Tasks |-> FALSE]
  /\ resp = [t \in Tasks |-> NoResp]
  /\ sent = [t \in Tasks |-> 0]
  /\ crashed = FALSE
  /\ tries = [t \in Tasks |-> 0]
  /\ cold = [t \in Tasks |-> FALSE]
  /\ anyResolved = FALSE
  /\ batchCalls = 0
  /\ batchConnects = 0
  /\ batchFails = 0
  /\ batchResults = {}
  /\ batchLost = FALSE

----------------------------------------------------------------------------
\* History bookkeeping (observes the program, never steers it).

\* The call starts before any call resolved and with an empty cache.
IsCold == cachedConnection = NoHandle /\ ~anyResolved

\* Task t enters connectToDatabase from call site s.
StartCall(t, s) ==
  /\ pc' = [pc EXCEPT ![t] = "call"]
  /\ site' = [site EXCEPT ![t] = s]
  /\ tries' = [tries EXCEPT ![t] = 0]
  /\ cold' = [cold EXCEPT ![t] = IsCold]
  /\ batchCalls' = IF IsCold THEN batchCalls + 1 ELSE batchCalls

\* The call of task t settles with outcome o.
Resolve(t, o) ==
  /\ anyResolved' = TRUE
  /\ cold' = [cold EXCEPT ![t] = FALSE]
  /\ batchResults' = IF cold[t] THEN batchResults \cup {o} ELSE batchResults
  /\ batchFails' = IF cold[t] /\ o.kind = "driver"
                   THEN batchFails + 1 ELSE batchFails

\* The handler of request t sends response r: res.status(..).json(..) or
\* res.json(..).
Respond(t, r) ==
  /\ resp' = [resp EXCEPT ![t] = r]
  /\ sent' = [sent EXCEPT ![t] = @ + 1]
  /\ pc' = [pc EXCEPT ![t] = "responded"]

----------------------------------------------------------------------------
\* connectToDatabase

\* A fast path that tests for the wrong session state (2, connecting).
FastPath_WrongState == cachedConnection # NoHandle /\ readyState = 2

\* if (cachedConnection && mongoose.connection.readyState === 1)
FastPath == cachedConnection # NoHandle /\ readyState = 1

\* A guard that was left out: nobody ever waits for a running attempt.
MustWait_NoGuard == FALSE

\* if (isConnecting): only the guarded variant has the flag.
MustWait == variant = "guarded" /\ isConnecting

\* A connector that never validates the connection string.
UriMissing_Unchecked == FALSE

\* if (!process.env.MONGODB_URI)
UriMissing == ~hasUri

\* A teardown that is not conditional on the session state.
NeedsTeardown_Always == variant = "guarded"

\* if (mongoose.connection.readyState !== 0): only in the guarded variant.
NeedsTeardown == variant = "guarded" /\ readyState # 0

\* The call mongoose.connect(uri, options) made by task t.  A call made while
\* the driver is already connecting joins the pending attempt; any other call
\* starts a new physical attempt.
CallMongooseConnect(t) ==
  /\ readyState' = 2
  /\ drv' = "pending"
  /\ session' = IF drv = "pending" THEN session ELSE session + 1
  /\ tries' = [tries EXCEPT ![t] = @ + 1]
  /\ batchConnects' = IF cold[t] THEN batchConnects + 1 ELSE batchConnects
  /\ pc' = [pc EXCEPT ![t] = "awaitConnect"]

\* Fast path: return cachedConnection.
CallFast(t) ==
  /\ Holds(t, "call")
  /\ FastPath
  /\ pc' = [pc EXCEPT ![t] = "ret"]
  /\ got' = [got EXCEPT ![t] = cachedConnection]
  /\ Resolve(t, [kind |-> "handle", id |-> cachedConnection])
  /\ UNCHANGED <<envVars, connVars, httpVars, site, err, crashed, tries, batchCalls, batchConnects, batchLost>>

\* Another call is connecting: await the 100 ms timer.
CallWait(t) ==
  /\ Holds(t, "call")
  /\ ~FastPath
  /\ MustWait
  /\ pc' = [pc EXCEPT ![t] = "awaitWait"]
  /\ UNCHANGED <<envVars, connVars, httpVars, site, err, got, crashed, histVars>>

\* The timer fired: return connectToDatabase().
PollTimer(t) ==
  /\ LoopIdle
  /\ pc[t] = "awaitWait"
  /\ pc' = [pc EXCEPT ![t] = "call"]
  /\ UNCHANGED <<envVars, connVars, httpVars, site, err, got, crashed, histVars>>

\* A slow path that never raises the busy flag.
CallBegin_NoFlag(t) ==
  /\ Holds(t, "call")
  /\ ~FastPath
  /\ ~MustWait
  /\ pc' = [pc EXCEPT ![t] = "try"]
  /\ UNCHANGED <<envVars, connVars, httpVars, site, err, got, crashed, histVars>>

\* Slow path: isConnecting = true; try {
CallBegin(t) ==
  /\ Holds(t, "call")
  /\ ~FastPath
  /\ ~MustWait
  /\ isConnecting' = (variant = "guarded")
  /\ pc' = [pc EXCEPT ![t] = "try"]
  /\ UNCHANGED <<envVars, cachedConnection, readyState, drv, session, httpVars,
                 site, err, got, crashed, histVars>>

\* A check of MONGODB_URI placed after the flag is set but outside the try
\* block: the error leaves the function without passing the catch block.
TryNoUri_OutsideTry(t) ==
  /\ Holds(t, "try")
  /\ UriMissing
  /\ err' = [err EXCEPT ![t] = "config"]
  /\ pc' = [pc EXCEPT ![t] = "thrown"]
  /\ Resolve(t, [kind |-> "config", id |-> 0])
  /\ UNCHANGED <<envVars, connVars, httpVars, site, got, crashed, tries,
                 batchCalls, batchConnects, batchLost>>

\* if (!process.env.MONGODB_URI) throw new Error('MONGODB_URI ...')
TryNoUri(t) ==
  /\ Holds(t, "try")
  /\ UriMissing
  /\ err' = [err EXCEPT ![t] = "config"]
  /\ pc' = [pc EXCEPT ![t] = "catch"]
  /\ UNCHANGED <<envVars, connVars, httpVars, site, got, crashed, histVars>>

\* await mongoose.disconnect()
TryDisconnect(t) ==
  /\ Holds(t, "try")
  /\ ~UriMissing
  /\ NeedsTeardown
  /\ readyState' = 3
  /\ pc' = [pc EXCEPT ![t] = "awaitDisconnect"]
  /\ UNCHANGED <<envVars, cachedConnection, isConnecting, drv, session,
                 httpVars, site, err, got, crashed, tries, cold,
                 anyResolved, batchCalls, batchConnects, batchFails,
                 batchResults, batchLost>>

\* cachedConnection = await mongoose.connect(...), reached without teardown
TryConnect(t) ==
  /\ Holds(t, "try")
  /\ ~UriMissing
  /\ ~NeedsTeardown
  /\ CallMongooseConnect(t)
  /\ UNCHANGED <<envVars, cachedConnection, isConnecting, httpVars, site, err,
                 got, crashed, cold, anyResolved, batchCalls,
                 batchFails, batchResults, batchLost>>

\* cachedConnection = await mongoose.connect(...), called while the connection
\* reports connecting, in a Mongoose release whose connect then resolves at
\* once without waiting for the driver.
TryConnectActive(t) ==
  /\ Holds(t, "try")
  /\ ~UriMissing
  /\ ~NeedsTeardown
  /\ readyState = 2
  /\ tries' = [tries EXCEPT ![t] = @ + 1]
  /\ batchConnects' = IF cold[t] THEN batchConnects + 1 ELSE batchConnects
  /\ pc' = [pc EXCEPT ![t] = "awaitNow"]
  /\ UNCHANGED <<envVars, connVars, httpVars, site, err, got, crashed, cold,
                 anyResolved, batchCalls, batchFails, batchResults, batchLost>>

\* mongoose.disconnect() resolved; the attempt goes on to mongoose.connect.
DisconnectOk(t) ==
  /\ LoopIdle
  /\ pc[t] = "awaitDisconnect"
  /\ CallMongooseConnect(t)
  /\ UNCHANGED <<envVars, cachedConnection, isConnecting, httpVars, site, err,
                 got, crashed, cold, anyResolved, batchCalls,
                 batchFails, batchResults, batchLost>>

\* mongoose.disconnect() rejected: the session stays in state 3.
DisconnectFail(t) ==
  /\ LoopIdle
  /\ pc[t] = "awaitDisconnect"
  /\ err' = [err EXCEPT ![t] = "teardown"]
  /\ pc' = [pc EXCEPT ![t] = "catch"]
  /\ UNCHANGED <<envVars, connVars, httpVars, site, got, crashed, histVars>>

\* The driver established the session: readyState becomes 1.
DriverConnectOk ==
  /\ LoopIdle
  /\ drv = "pending"
  /\ drv' = "ok"
  /\ readyState' = 1
  /\ UNCHANGED <<envVars, cachedConnection, isConnecting, session, pc, httpVars,
                 site, err, got, crashed, histVars>>

\* The driver gave up (network, auth, server selection timeout).
DriverConnectFail ==
  /\ LoopIdle
  /\ drv = "pending"
  /\ drv' = "fail"
  /\ readyState' = 0
  /\ UNCHANGED <<envVars, cachedConnection, isConnecting, session, pc, httpVars,
                 site, err, got, crashed, histVars>>

\* A success path that returns without clearing the busy flag.
ConnectResolved_KeepFlag(t) ==
  /\ ~crashed /\ ~Running
  /\ pc[t] = "awaitConnect"
  /\ drv = "ok"
  /\ cachedConnection' = session
  /\ got' = [got EXCEPT ![t] = session]
  /\ pc' = [pc EXCEPT ![t] = "ret"]
  /\ Resolve(t, [kind |-> "handle", id |-> session])
  /\ UNCHANGED <<envVars, isConnecting, readyState, drv, session, httpVars,
                 site, err, crashed, tries, batchCalls, batchConnects,
                 batchLost>>

\* cachedConnection = <resolved value>; isConnecting = false; return it.
ConnectResolved(t) ==
  /\ ~crashed /\ ~Running
  /\ pc[t] = "awaitConnect"
  /\ drv = "ok"
  /\ cachedConnection' = session
  /\ isConnecting' = FALSE
  /\ got' = [got EXCEPT ![t] = session]
  /\ pc' = [pc EXCEPT ![t] = "ret"]
  /\ Resolve(t, [kind |-> "handle", id |-> session])
  /\ UNCHANGED <<envVars, readyState, drv, session, httpVars, site, err,
                 crashed, tries, batchCalls,
                 batchConnects, batchLost>>

\* The same continuation after a mongoose.connect that resolved at once.
ConnectNow(t) ==
  /\ ~crashed /\ ~Running
  /\ pc[t] = "awaitNow"
  /\ cachedConnection' = session
  /\ isConnecting' = FALSE
  /\ got' = [got EXCEPT ![t] = session]
  /\ pc' = [pc EXCEPT ![t] = "ret"]
  /\ Resolve(t, [kind |-> "handle", id |-> session])
  /\ UNCHANGED <<envVars, readyState, drv, session, httpVars, site, err,
                 crashed, tries, batchCalls,
                 batchConnects, batchLost>>

\* The awaited mongoose.connect rejected: control enters the catch block.
ConnectRejected(t) ==
  /\ ~crashed /\ ~Running
  /\ pc[t] = "awaitConnect"
  /\ drv = "fail"
  /\ err' = [err EXCEPT ![t] = "driver"]
  /\ pc' = [pc EXCEPT ![t] = "catch"]
  /\ UNCHANGED <<envVars, connVars, httpVars, site, got, crashed, histVars>>

\* Identity of the error object the catch block rethrows.
ErrId(t) ==
  CASE err[t] = "driver" -> session
    [] err[t] = "teardown" -> session
    [] OTHER -> 0

\* A catch block that retries the attempt itself instead of rethrowing.
Catch_Retry(t) ==
  /\ Holds(t, "catch")
  /\ pc' = [pc EXCEPT ![t] = "try"]
  /\ UNCHANGED <<envVars, connVars, httpVars, site, err, got, crashed, histVars>>

\* A catch block that rethrows without clearing the busy flag.
Catch_KeepFlag(t) ==
  /\ Holds(t, "catch")
  /\ pc' = [pc EXCEPT ![t] = "thrown"]
  /\ Resolve(t, [kind |-> err[t], id |-> ErrId(t)])
  /\ UNCHANGED <<envVars, connVars, httpVars, site, err, got, crashed, tries,
                 batchCalls, batchConnects, batchLost>>

\* catch (error) { isConnecting = false; ...; throw error; }
Catch(t) ==
  /\ Holds(t, "catch")
  /\ isConnecting' = FALSE
  /\ pc' = [pc EXCEPT ![t] = "thrown"]
  /\ Resolve(t, [kind |-> err[t], id |-> ErrId(t)])
  /\ UNCHANGED <<envVars, cachedConnection, readyState, drv, session, httpVars,
                 site, err, got, crashed, tries,
                 batchCalls, batchConnects, batchLost>>

\* States a session that is no longer ready may report.
StaleStates == {0, 2}

\* The driver reports that the established session is no longer ready.
SessionLost(s) ==
  /\ LoopIdle
  /\ readyState = 1
  /\ readyState' = s
  /\ batchLost' = (batchLost \/ \E t \in Tasks : cold[t])
  /\ UNCHANGED <<envVars, cachedConnection, isConnecting, drv, session, pc,
                 httpVars, site, err, got, crashed, tries, cold, anyResolved, batchCalls,
                 batchConnects, batchFails, batchResults>>

----------------------------------------------------------------------------
\* Start-up and the request pipeline.

\* app.listen(PORT, async () => { await connectToDatabase(); ... }): only
\* outside production, and before the server accepts any request.
ListenCallback ==
  /\ LoopIdle
  /\ ~production
  /\ pc[Listen] = "new"
  /\ StartCall(Listen, "listen")
  /\ UNCHANGED <<envVars, connVars, httpVars, err, got, crashed, anyResolved, batchConnects, batchFails,
                 batchResults, batchLost>>

\* The start-up call returned: the callback logs and ends.
ListenDone ==
  /\ Holds(Listen, "ret")
  /\ pc' = [pc EXCEPT ![Listen] = "done"]
  /\ UNCHANGED <<envVars, connVars, httpVars, site, err, got, crashed, histVars>>

\* The start-up call threw: nothing catches the callback's rejection.  Node
\* ends the process or only warns, depending on how it was started.
ListenUnhandled ==
  /\ Holds(Listen, "thrown")
  /\ pc' = [pc EXCEPT ![Listen] = "unhandled"]
  /\ crashed' \in BOOLEAN
  /\ UNCHANGED <<envVars, connVars, httpVars, site, err, got, histVars>>

\* A request of kind r arrives; the requests are numbered in arrival order.
Arrive(t, r) ==
  /\ LoopIdle
  /\ t \in Requests
  /\ pc[t] = "new"
  /\ \A u \in Requests : u < t => pc[u] # "new"
  /\ production \/ pc[Listen] # "new"
  /\ route' = [route EXCEPT ![t] = r]
  /\ pc' = [pc EXCEPT ![t] = "gate"]
  /\ UNCHANGED <<envVars, connVars, nextCalled, resp, sent, site, err, got,
                 crashed, histVars>>

\* A gate without the exemption of the health check.
Exempt_Nothing(t) == FALSE

\* A gate that exempts the path /api/health whatever the method.
Exempt_AnyMethod(t) ==
  variant = "guarded" /\ route[t] \in {"health", "healthdb", "healthpost"}

\* if (req.path === '/api/health' && req.method === 'GET'): the query string
\* is not part of req.path.  The plain variant has no exemption.
Exempt(t) == variant = "guarded" /\ route[t] \in {"health", "healthdb"}

\* return next()
GateExempt(t) ==
  /\ Holds(t, "gate")
  /\ Exempt(t)
  /\ nextCalled' = [nextCalled EXCEPT ![t] = TRUE]
  /\ pc' = [pc EXCEPT ![t] = "dispatch"]
  /\ UNCHANGED <<envVars, connVars, route, resp, sent, site, err, got, crashed,
                 histVars>>

\* try { await connectToDatabase();
GateConnect(t) ==
  /\ Holds(t, "gate")
  /\ ~Exempt(t)
  /\ StartCall(t, "gate")
  /\ UNCHANGED <<envVars, connVars, httpVars, err, got, crashed, anyResolved, batchConnects, batchFails,
                 batchResults, batchLost>>

\* next(); }
GateNext(t) ==
  /\ Holds(t, "ret")
  /\ site[t] = "gate"
  /\ nextCalled' = [nextCalled EXCEPT ![t] = TRUE]
  /\ pc' = [pc EXCEPT ![t] = "dispatch"]
  /\ UNCHANGED <<envVars, connVars, route, resp, sent, site, err, got, crashed,
                 histVars>>

\* A gate that puts error.message in every response.
GateDetail_Always(t) == err[t]

\* error: process.env.NODE_ENV !== 'production' ? error.message : undefined
\* (the plain variant's response has no error field at all)
GateDetail(t) ==
  IF variant = "guarded" /\ ~production THEN err[t] ELSE "none"

\* catch (error) { res.status(500).json({success: false, message: 'Erro de
\* conexão com o banco de dados', ...}) }
GateReject(t) ==
  /\ Holds(t, "thrown")
  /\ site[t] = "gate"
  /\ Respond(t, [status |-> 500, success |-> FALSE, message |-> "dbUnavailable",
                 detail |-> GateDetail(t), database |-> "none"])
  /\ UNCHANGED <<envVars, connVars, route, nextCalled, site, err, got, crashed,
                 histVars>>

\* app.use('/api/contacts', contactRoutes): the business route is reached and
\* answers (the routes themselves are outside this model).
RouteContacts(t) ==
  /\ Holds(t, "dispatch")
  /\ route[t] = "contacts"
  /\ Respond(t, [status |-> 200, success |-> TRUE, message |-> "route",
                 detail |-> "none", database |-> "none"])
  /\ UNCHANGED <<envVars, connVars, route, nextCalled, site, err, got, crashed,
                 histVars>>

\* The /api/health handler tests the database: req.query.db === 'true', which
\* only the guarded variant's handler looks at.
Deep(t) == variant = "guarded" /\ route[t] = "healthdb"

\* GET /api/health without a database test: res.json(healthCheck)
HealthShallow(t) ==
  /\ Holds(t, "dispatch")
  /\ route[t] \in {"health", "healthdb"}
  /\ ~Deep(t)
  /\ Respond(t, [status |-> 200, success |-> TRUE, message |-> "health",
                 detail |-> "none", database |-> "none"])
  /\ UNCHANGED <<envVars, connVars, route, nextCalled, site, err, got, crashed,
                 histVars>>

\* GET /api/health?db=true: try { await connectToDatabase();
HealthDeep(t) ==
  /\ Holds(t, "dispatch")
  /\ Deep(t)
  /\ StartCall(t, "health")
  /\ UNCHANGED <<envVars, connVars, httpVars, err, got, crashed, anyResolved, batchConnects, batchFails,
                 batchResults, batchLost>>

\* GET /api/db-test (guarded variant only): the handler's own check of
\* MONGODB_URI, then await connectToDatabase().
DbTest(t) ==
  /\ Holds(t, "dispatch")
  /\ variant = "guarded"
  /\ route[t] = "dbtest"
  /\ IF ~hasUri
     THEN /\ Respond(t, [status |-> 500, success |-> FALSE,
                         message |-> "uriNotConfigured", detail |-> "none",
                         database |-> "none"])
          /\ UNCHANGED <<site, histVars>>
     ELSE /\ StartCall(t, "dbtest")
          /\ UNCHANGED <<resp, sent, anyResolved, batchConnects, batchFails, batchResults,
                         batchLost>>
  /\ UNCHANGED <<envVars, connVars, route, nextCalled, err, got, crashed>>

\* app.use('*', ...): 404 for what no route matched.
NotFound(t) ==
  /\ Holds(t, "dispatch")
  /\ \/ route[t] = "healthpost"
     \/ variant = "plain" /\ route[t] = "dbtest"
  /\ Respond(t, [status |-> 404, success |-> FALSE, message |-> "notFound",
                 detail |-> "none", database |-> "none"])
  /\ UNCHANGED <<envVars, connVars, route, nextCalled, site, err, got, crashed,
                 histVars>>

\* await mongoose.connection.db.admin().ping()
Ping(t) ==
  /\ Holds(t, "ret")
  /\ site[t] \in {"health", "dbtest"}
  /\ pc' = [pc EXCEPT ![t] = "awaitPing"]
  /\ UNCHANGED <<envVars, connVars, httpVars, site, err, got, crashed, histVars>>

\* The ping is answered; only a ready session answers.
PingOk(t) ==
  /\ LoopIdle
  /\ pc[t] = "awaitPing"
  /\ readyState = 1
  /\ pc' = [pc EXCEPT ![t] = "pinged"]
  /\ UNCHANGED <<envVars, connVars, httpVars, site, err, got, crashed, histVars>>

PingFail(t) ==
  /\ LoopIdle
  /\ pc[t] = "awaitPing"
  /\ err' = [err EXCEPT ![t] = "ping"]
  /\ pc' = [pc EXCEPT ![t] = "thrown"]
  /\ UNCHANGED <<envVars, connVars, httpVars, site, got, crashed, histVars>>

\* healthCheck.database = {status: 'connected', ...}; res.json(healthCheck)
HealthOk(t) ==
  /\ Holds(t, "pinged")
  /\ site[t] = "health"
  /\ Respond(t, [status |-> 200, success |-> TRUE, message |-> "health",
                 detail |-> "none", database |-> "connected"])
  /\ UNCHANGED <<envVars, connVars, route, nextCalled, site, err, got, crashed,
                 histVars>>

\* A handler that forgets the status: the failure report goes out as 200.
HealthFail_Status200(t) ==
  /\ Holds(t, "thrown")
  /\ site[t] = "health"
  /\ Respond(t, [status |-> 200, success |-> FALSE, message |-> "health",
                 detail |-> err[t], database |-> "error"])
  /\ UNCHANGED <<envVars, connVars, route, nextCalled, site, err, got, crashed,
                 histVars>>

\* catch (error) { healthCheck.database = {status: 'error', message:
\* error.message}; healthCheck.success = false; return res.status(503)... }
HealthFail(t) ==
  /\ Holds(t, "thrown")
  /\ site[t] = "health"
  /\ Respond(t, [status |-> 503, success |-> FALSE, message |-> "health",
                 detail |-> err[t], database |-> "error"])
  /\ UNCHANGED <<envVars, connVars, route, nextCalled, site, err, got, crashed,
                 histVars>>

\* const dbStats = await mongoose.connection.db.stats()
DbTestStats(t) ==
  /\ Holds(t, "pinged")
  /\ site[t] = "dbtest"
  /\ pc' = [pc EXCEPT ![t] = "awaitStats"]
  /\ UNCHANGED <<envVars, connVars, httpVars, site, err, got, crashed, histVars>>

\* res.json({success: true, message: 'Conexão com MongoDB funcionando', ...})
StatsOk(t) ==
  /\ LoopIdle
  /\ pc[t] = "awaitStats"
  /\ readyState = 1
  /\ Respond(t, [status |-> 200, success |-> TRUE, message |-> "mongoOk",
                 detail |-> "none", database |-> "connected"])
  /\ UNCHANGED <<envVars, connVars, route, nextCalled, site, err, got, crashed,
                 histVars>>

StatsFail(t) ==
  /\ LoopIdle
  /\ pc[t] = "awaitStats"
  /\ err' = [err EXCEPT ![t] = "stats"]
  /\ pc' = [pc EXCEPT ![t] = "thrown"]
  /\ UNCHANGED <<envVars, connVars, httpVars, site, got, crashed, histVars>>

\* catch (error) { res.status(500).json({success: false, message: 'Erro na
\* conexão com MongoDB', error: error.message, ...}) }
DbTestFail(t) ==
  /\ Holds(t, "thrown")
  /\ site[t] = "dbtest"
  /\ Respond(t, [status |-> 500, success |-> FALSE, message |-> "mongoError",
                 detail |-> err[t], database |-> "none"])
  /\ UNCHANGED <<envVars, connVars, route, nextCalled, site, err, got, crashed,
                 histVars>>

\* The handler returns after its response: the request and everything the
\* handler held go out of scope; only the number of responses sent is kept.
End(t) ==
  /\ Holds(t, "responded")
  /\ pc' = [pc EXCEPT ![t] = "done"]
  /\ route' = [route EXCEPT ![t] = "none"]
  /\ nextCalled' = [nextCalled EXCEPT ![t] = FALSE]
  /\ resp' = [resp EXCEPT ![t] = NoResp]
  /\ site' = [site EXCEPT ![t] = "none"]
  /\ err' = [err EXCEPT ![t] = "none"]
  /\ got' = [got EXCEPT ![t] = NoHandle]
  /\ UNCHANGED <<envVars, connVars, sent, crashed, histVars>>

----------------------------------------------------------------------------
Next ==
  \/ ListenCallback
  \/ ListenDone
  \/ ListenUnhandled
  \/ DriverConnectOk
  \/ DriverConnectFail
  \/ \E s \in StaleStates : SessionLost(s)
  \/ \E t \in Requests, r \in Routes : Arrive(t, r)
  \/ \E t \in Tasks :
       \/ CallFast(t)
       \/ CallWait(t)
       \/ PollTimer(t)
       \/ CallBegin(t)
       \/ TryNoUri(t)
       \/ TryDisconnect(t)
       \/ TryConnect(t)
       \/ TryConnectActive(t)
       \/ DisconnectOk(t)
       \/ DisconnectFail(t)
       \/ ConnectResolved(t)
       \/ ConnectNow(t)
       \/ ConnectRejected(t)
       \/ Catch(t)
  \/ \E t \in Requests :
       \/ GateExempt(t)
       \/ GateConnect(t)
       \/ GateNext(t)
       \/ GateReject(t)
       \/ RouteContacts(t)
       \/ HealthShallow(t)
       \/ HealthDeep(t)
       \/ DbTest(t)
       \/ NotFound(t)
       \/ Ping(t)
       \/ PingOk(t)
       \/ PingFail(t)
       \/ HealthOk(t)
       \/ HealthFail(t)
       \/ DbTestStats(t)
       \/ StatsOk(t)
       \/ StatsFail(t)
       \/ DbTestFail(t)
       \/ End(t)

Spec == Init /\ [][Next]_vars

\* The steps the event loop owes task t: its synchronous code runs on, its
\* 100 ms timer fires, its awaited driver operation settles and the
\* continuation runs.
TaskNext(t) ==
  \/ CallFast(t)
  \/ CallWait(t)
  \/ PollTimer(t)
  \/ CallBegin(t)
  \/ TryNoUri(t)
  \/ TryDisconnect(t)
  \/ TryConnect(t)
  \/ TryConnectActive(t)
  \/ DisconnectOk(t)
  \/ DisconnectFail(t)
  \/ ConnectResolved(t)
  \/ ConnectNow(t)
  \/ ConnectRejected(t)
  \/ Catch(t)
  \/ t = Listen /\ (ListenDone \/ ListenUnhandled)
  \/ t \in Requests /\
       (GateExempt(t) \/ GateConnect(t) \/ GateNext(t) \/ GateReject(t)
          \/ RouteContacts(t) \/ HealthShallow(t) \/ HealthDeep(t)
          \/ DbTest(t) \/ NotFound(t) \/ Ping(t) \/ HealthOk(t)
          \/ HealthFail(t) \/ DbTestStats(t) \/ DbTestFail(t) \/ End(t))

\* The same program under the scheduling Node and the driver provide.  Every
\* turn of the event loop serves the expired timers and then the pending
\* socket events, so a callback that is ready again and again (a timer or a
\* driver event that has to wait while another task's synchronous code runs)
\* is eventually served: strong fairness.  A pending mongoose.connect settles
\* at the latest on serverSelectionTimeoutMS / connectTimeoutMS.  Request
\* arrivals, session losses and diagnostic pings are under no obligation.
FairSpec ==
  /\ Spec
  /\ \A t \in Tasks : SF_vars(TaskNext(t))
  /\ SF_vars(DriverConnectOk \/ DriverConnectFail)

----------------------------------------------------------------------------
\* Properties of the connector.

\* The tasks inside the attempt section of connectToDatabase.
InAttempt == {t \in Tasks : pc[t] \in AttemptPcs}

\* The tasks with a mongoose.connect call in flight.
InConnect == {t \in Tasks : pc[t] = "awaitConnect"}

\* Some cold call was made and every cold call has resolved.
BatchDone == batchCalls >= 1 /\ \A t \in Tasks : ~cold[t]

BatchHandles == {o \in batchResults : o.kind = "handle"}

\* C1 as stated, on the production runs (requests are the only callers) in
\* which MONGODB_URI is set and the session is not lost: once the calls that
\* started from the idle connector have all resolved, exactly one
\* mongoose.connect was made for them and they all got the same outcome.
C1_ExactlyOneAttempt ==
  (variant = "guarded" /\ production /\ hasUri /\ BatchDone /\ ~batchLost) =>
    (batchConnects = 1 /\ Cardinality(batchResults) = 1)

\* C1, amended: in the guarded variant the calls that start from the idle
\* connector make at most one mongoose.connect each.  When all have resolved
\* and the session was not lost meanwhile: if no attempt failed, exactly one
\* connect was made and all calls resolved to the same handle; otherwise every
\* call rejected by a driver error made its own connect, at most one further
\* connect was made, the calls that got a handle got the same one, and no
\* connect at all was made when MONGODB_URI is absent.
C1_OneAttemptPerFailure ==
  variant = "guarded" =>
    /\ batchConnects <= batchCalls
    /\ (BatchDone /\ ~batchLost) =>
         /\ batchFails <= batchConnects
         /\ batchConnects <= batchFails + (IF BatchHandles # {} THEN 1 ELSE 0)
         /\ Cardinality(BatchHandles) <= 1
         /\ (hasUri /\ batchFails = 0) =>
              (batchConnects = 1 /\ Cardinality(batchResults) = 1)
         /\ ~hasUri => batchConnects = 0

\* Two calls started from the idle connector; the first attempt failed, the
\* waiter made its own attempt and got a handle.
C1_Witness ==
  /\ variant = "guarded"
  /\ BatchDone
  /\ ~batchLost
  /\ batchCalls >= 2
  /\ batchFails = 1
  /\ batchConnects = 2
  /\ BatchHandles # {}

\* C2: in the guarded variant at most one call is inside the attempt section
\* (busy flag set, teardown or connect awaited) in every reachable state, so
\* no two connect or teardown operations are in flight together.
C2_SingleFlight ==
  variant = "guarded" => Cardinality(InAttempt) <= 1

\* A call awaits mongoose.connect while another call polls the busy flag.
C2_Witness ==
  /\ variant = "guarded"
  /\ \E t, u \in Tasks : pc[t] = "awaitConnect" /\ pc[u] = "awaitWait"

\* C3 as stated: in src/server.js two requests never both have a
\* mongoose.connect call in flight.
C3_PlainSingleFlight ==
  variant = "plain" => Cardinality(InConnect \cap Requests) <= 1

\* C4: a call made while cachedConnection is set and the session is ready
\* returns that handle in the same synchronous step, and changes neither the
\* cache, the busy flag nor the driver (no connect, no disconnect).
C4_FastPathFrame ==
  [][\A t \in Tasks :
       (pc[t] = "call" /\ pc'[t] # "call"
          /\ cachedConnection # NoHandle /\ readyState = 1) =>
         /\ pc'[t] = "ret"
         /\ got'[t] = cachedConnection
         /\ UNCHANGED <<cachedConnection, isConnecting, readyState, drv,
                        session>>]_vars

\* A call has just returned the cached handle without making an attempt.
C4_Witness ==
  \E t \in Tasks :
    /\ pc[t] = "ret"
    /\ tries[t] = 0
    /\ got[t] = cachedConnection
    /\ cachedConnection # NoHandle
    /\ readyState = 1

\* C5: in the guarded variant a GET /api/health without db=true never enters
\* connectToDatabase and never suspends, and its answer is 200 with
\* success = true and no database key, whatever the connection state.
C5_ShallowHealth ==
  \A t \in Requests :
    (variant = "guarded" /\ route[t] = "health") =>
      /\ pc[t] \in {"gate", "dispatch", "responded"}
      /\ site[t] = "none"
      /\ pc[t] = "responded" =>
           resp[t] = [status |-> 200, success |-> TRUE, message |-> "health",
                      detail |-> "none", database |-> "none"]

\* The shallow health check is answered while another call's attempt is in
\* flight, after an earlier attempt failed.
C5_Witness ==
  /\ variant = "guarded"
  /\ anyResolved
  /\ cachedConnection = NoHandle
  /\ \E t \in Requests, u \in Tasks :
       /\ route[t] = "health"
       /\ pc[t] = "responded"
       /\ pc[u] = "awaitConnect"

----------------------------------------------------------------------------
\* Properties of the gate and of the health endpoints.

\* The response names the missing MONGODB_URI.
NamesUri(r) == r.detail = "config" \/ r.message = "uriNotConfigured"

\* The response reports a failed connection.
ReportsFailure(r) ==
  r.message \in {"dbUnavailable", "mongoError", "uriNotConfigured"}
    \/ r.database = "error"

\* C6 as stated: in src/server.js a GET /api/health is answered 200 with
\* success = true whatever the state of the database and of MONGODB_URI.
C6_PlainHealthAlwaysUp ==
  \A t \in Requests :
    (variant = "plain" /\ route[t] = "health" /\ pc[t] = "responded") =>
      (resp[t].status = 200 /\ resp[t].success)

\* C7: a request that is not a GET on /api/health gets next() only after its
\* own gate call to connectToDatabase returned a handle, reaches the routes
\* only after next(), and when the gate call fails next() is not called and the
\* answer is the 500 "Erro de conexão com o banco de dados" with
\* success = false.
C7_GateBeforeRoutes ==
  \A t \in Requests :
    (route[t] # "none" /\ (variant = "plain" \/ route[t] \notin {"health", "healthdb"})) =>
      /\ nextCalled[t] => got[t] # NoHandle
      /\ pc[t] \in {"dispatch", "awaitPing", "pinged", "awaitStats"} => nextCalled[t]
      /\ site[t] \in {"health", "dbtest"} => nextCalled[t]
      /\ (pc[t] = "thrown" /\ site[t] = "gate") => ~nextCalled[t]
      /\ (pc[t] = "responded" /\ ~nextCalled[t]) =>
           /\ resp[t].status = 500
           /\ ~resp[t].success
           /\ resp[t].message = "dbUnavailable"
      /\ (pc[t] = "responded" /\ resp[t].message # "dbUnavailable") =>
           nextCalled[t]

\* A request for the contacts routes waited for another call's attempt, got
\* the handle and reached the business route.
C7_Witness ==
  \E t \in Requests :
    /\ route[t] = "contacts"
    /\ pc[t] = "responded"
    /\ resp[t].message = "route"
    /\ nextCalled[t]
    /\ got[t] # NoHandle
    /\ tries[t] = 0

\* C8: in the guarded variant GET /api/health?db=true is answered once, either
\* 503 with success = false and database = {status: 'error', message} (the
\* connect or the ping failed) or 200 with success = true and
\* database = {status: 'connected', ...} (connectToDatabase returned a handle
\* and the ping was answered); nothing else.
C8_DeepHealthOutcomes ==
  \A t \in Requests :
    (variant = "guarded" /\ route[t] = "healthdb") =>
      /\ sent[t] <= 1
      /\ sent[t] = 1 <=> pc[t] = "responded"
      /\ pc[t] = "pinged" => (got[t] # NoHandle /\ err[t] = "none")
      /\ pc[t] = "thrown" => err[t] \in {"config", "driver", "teardown", "ping"}
      /\ pc[t] = "responded" =>
           \/ /\ err[t] # "none"
              /\ resp[t] = [status |-> 503, success |-> FALSE,
                            message |-> "health", detail |-> err[t],
                            database |-> "error"]
           \/ /\ err[t] = "none"
              /\ got[t] # NoHandle
              /\ resp[t] = [status |-> 200, success |-> TRUE,
                            message |-> "health", detail |-> "none",
                            database |-> "connected"]

\* The deep health check connected, the ping failed, and the answer is 503.
C8_Witness ==
  \E t \in Requests :
    /\ variant = "guarded"
    /\ route[t] = "healthdb"
    /\ pc[t] = "responded"
    /\ got[t] # NoHandle
    /\ err[t] = "ping"
    /\ resp[t].status = 503

\* C9: with MONGODB_URI absent no mongoose.connect and no mongoose.disconnect
\* is ever called (the driver is never touched), cachedConnection stays as it
\* was, every error that reaches a caller of connectToDatabase is the
\* configuration error, and the busy flag is clear when it does.
C9_MissingUriFailsFast ==
  ~hasUri =>
    /\ readyState = 0
    /\ drv = "idle"
    /\ session = 0
    /\ cachedConnection = NoHandle
    /\ \A t \in Tasks :
         /\ pc[t] \notin {"awaitDisconnect", "awaitConnect", "awaitWait", "ret"}
         /\ pc[t] \in {"catch", "thrown"} => err[t] = "config"
         /\ pc[t] = "thrown" => ~isConnecting
         /\ tries[t] = 0

\* In the guarded variant the configuration error has reached the caller.
C9_Witness ==
  /\ ~hasUri
  /\ variant = "guarded"
  /\ \E t \in Requests : pc[t] = "thrown" /\ err[t] = "config"

\* C10 as stated: every response that reports a connection failure while
\* MONGODB_URI is absent names MONGODB_URI.
C10_AlwaysNamesUri ==
  \A t \in Requests :
    (~hasUri /\ pc[t] = "responded" /\ ReportsFailure(resp[t])) =>
      NamesUri(resp[t])

\* C10, amended: while MONGODB_URI is absent every request that triggers a
\* connect attempt is answered with success = false; GET /api/health?db=true
\* (guarded variant) names MONGODB_URI in database.message in every mode; a
\* gated route, /api/db-test included, gets the gate's 500 "Erro de conexão com
\* o banco de dados", which names MONGODB_URI (error field) exactly in the
\* guarded variant outside production; the /api/db-test handler is not reached.
C10_NamesUriWhereExposed ==
  \A t \in Requests :
    (~hasUri /\ pc[t] = "responded") =>
      /\ ReportsFailure(resp[t]) <=> ~resp[t].success /\ resp[t].status # 404
      /\ ReportsFailure(resp[t]) <=>
           (variant = "plain" \/ route[t] # "health")
      /\ resp[t].database = "error" =>
           (route[t] = "healthdb" /\ resp[t].status = 503 /\ NamesUri(resp[t]))
      /\ (ReportsFailure(resp[t]) /\ resp[t].database # "error") =>
           /\ resp[t].status = 500
           /\ resp[t].message = "dbUnavailable"
           /\ NamesUri(resp[t]) <=> (variant = "guarded" /\ ~production)

\* Outside production the gate of the guarded variant names MONGODB_URI.
C10_Witness ==
  \E t \in Requests :
    /\ ~hasUri
    /\ variant = "guarded"
    /\ ~production
    /\ route[t] = "dbtest"
    /\ pc[t] = "responded"
    /\ resp[t].message = "dbUnavailable"
    /\ resp[t].detail = "config"

----------------------------------------------------------------------------
\* Properties of error handling.

\* C11 as stated: no rejected connectToDatabase call is left uncaught by its
\* caller, so the process never ends on an unhandled rejection.
C11_NoUnhandledRejection ==
  /\ ~crashed
  /\ \A t \in Tasks : pc[t] # "unhandled"

\* C12 as stated: in production no failure response carries the underlying
\* error message.
C12_NoDetailInProduction ==
  \A t \in Requests :
    (production /\ pc[t] = "responded" /\ ~resp[t].success) =>
      resp[t].detail = "none"

\* C13 as stated: in the guarded variant GET /api/db-test is answered once and
\* only by its own handler: 500 'MONGODB_URI não configurada' or 500 'Erro na
\* conexão com MongoDB' with success = false, or 200 with success = true after
\* connect, ping and stats all succeeded.
C13_DbTestAnswersItself ==
  \A t \in Requests :
    (variant = "guarded" /\ route[t] = "dbtest") =>
      /\ sent[t] <= 1
      /\ pc[t] = "responded" =>
           \/ /\ resp[t].status = 500
              /\ ~resp[t].success
              /\ resp[t].message \in {"uriNotConfigured", "mongoError"}
           \/ /\ resp[t].status = 200
              /\ resp[t].success
              /\ resp[t].message = "mongoOk"
              /\ err[t] = "none"

\* C14: in the guarded variant a top-level call of connectToDatabase, with all
\* its poll-and-recurse continuations, calls mongoose.connect at most once;
\* when its attempt has failed the error is on its way to the caller with the
\* busy flag clear and no second attempt made; and the calls that started
\* together from the idle connector made no more connects than there are
\* calls.
C14_OneAttemptPerCall ==
  variant = "guarded" =>
    /\ \A t \in Tasks :
         /\ tries[t] <= 1
         /\ pc[t] \in {"call", "awaitWait", "try", "awaitDisconnect"} =>
              tries[t] = 0
         /\ (pc[t] = "thrown" /\ err[t] \in {"driver", "teardown", "config"}) =>
              ~isConnecting
    /\ batchConnects <= batchCalls

\* A call's only attempt failed and its error is propagating while another
\* call is still polling the busy flag.
C14_Witness ==
  /\ variant = "guarded"
  /\ \E t, u \in Tasks :
       /\ pc[t] = "thrown"
       /\ err[t] = "driver"
       /\ tries[t] = 1
       /\ ~isConnecting
       /\ pc[u] = "awaitWait"

----------------------------------------------------------------------------
\* Termination of connectToDatabase.

\* Positions inside a call of connectToDatabase that has not resolved yet.
CallPcs == {"call", "awaitWait", "try", "awaitDisconnect", "awaitConnect",
            "awaitNow", "catch"}

\* C15: in the guarded variant, when timers fire and every mongoose.connect
\* and mongoose.disconnect settles, every call of connectToDatabase that is
\* under way eventually returns a handle or throws to its caller (or the
\* process has ended meanwhile): no waiter polls forever.
C15_EveryCallResolves ==
  \A t \in Tasks :
    (variant = "guarded" /\ pc[t] \in CallPcs) ~>
      (pc[t] \in {"ret", "thrown"} \/ crashed)

\* Two or more calls started from the idle connector, one mongoose.connect was
\* made, and all of them have returned its handle: the others polled the busy
\* flag until the attempt ended.
C15_Witness ==
  /\ variant = "guarded"
  /\ BatchDone
  /\ batchCalls >= 2
  /\ batchConnects = 1
  /\ batchFails = 0
  /\ Cardinality(BatchHandles) = 1
  /\ Cardinality(batchResults) = 1

----------------------------------------------------------------------------
\* Properties of the cache and of the busy flag.

\* C16 as stated: whenever a call of connectToDatabase has just returned, what
\* it returns is a handle (not null), it is the cached one, and the session
\* reports ready (readyState = 1).
C16_HandleOnlyWhenReady ==
  \A t \in Tasks :
    pc[t] = "ret" =>
      /\ got[t] # NoHandle
      /\ got[t] = cachedConnection
      /\ readyState = 1

\* C17: in the guarded variant mongoose.disconnect is called only from the
\* attempt section, before the attempt's mongoose.connect, and only while the
\* session reports neither idle (0) nor ready (1); a ready session is never
\* put into disconnecting; and after the teardown the attempt goes on to its
\* connect or fails.
C17_TeardownOnlyStale ==
  [][variant = "guarded" =>
       /\ \A t \in Tasks :
            /\ (pc'[t] = "awaitDisconnect" /\ pc[t] # "awaitDisconnect") =>
                 /\ pc[t] = "try"
                 /\ readyState \notin {0, 1}
                 /\ tries[t] = 0
                 /\ isConnecting
            /\ pc[t] = "awaitDisconnect" =>
                 pc'[t] \in {"awaitDisconnect", "awaitConnect", "catch"}
       /\ readyState' = 3 => (readyState \in {2, 3})
       /\ (readyState = 3 /\ readyState' # 3) =>
            \E t \in Tasks : pc[t] = "awaitDisconnect" /\ pc'[t] = "awaitConnect"
    ]_vars

\* The teardown of a session that was established and then stopped being
\* ready is under way.
C17_Witness ==
  /\ variant = "guarded"
  /\ cachedConnection # NoHandle
  /\ readyState = 3
  /\ \E t \in Tasks : pc[t] = "awaitDisconnect" /\ tries[t] = 0

\* Errors with which connectToDatabase itself rejects.
ConnectErrs == {"config", "driver", "teardown"}

\* C18: in the guarded variant the busy flag is set exactly while one call is
\* inside the attempt section, and it is clear whenever a call has just
\* returned or thrown (after a connect, a connect error, a teardown error or a
\* missing MONGODB_URI), so it is never set without an attempt under way.
C18_FlagTracksAttempt ==
  variant = "guarded" =>
    /\ isConnecting <=> Cardinality(InAttempt) = 1
    /\ ~isConnecting <=> InAttempt = {}
    /\ \A t \in Tasks :
         /\ pc[t] = "ret" => ~isConnecting
         /\ (pc[t] = "thrown" /\ err[t] \in ConnectErrs) => ~isConnecting

\* A teardown error has just left the attempt section with the flag clear
\* while another call waits on its timer.
C18_Witness ==
  /\ variant = "guarded"
  /\ ~isConnecting
  /\ \E t, u \in Tasks :
       /\ pc[t] = "thrown"
       /\ err[t] = "teardown"
       /\ pc[u] = "awaitWait"

\* C19: a failure leaves nothing behind that blocks the next call.  When a
\* call throws a connect or configuration error the busy flag is clear and the
\* fast path is closed; a call that then runs with no attempt under way enters
\* the attempt section itself; an attempt whose mongoose.connect the driver
\* completes returns the new handle and caches it with the session ready; and
\* a call made while that holds returns the cached handle without an attempt.
C19_FailureNotSticky ==
  [][\A t \in Tasks :
       /\ (pc'[t] = "thrown" /\ pc[t] = "catch") =>
            /\ ~isConnecting'
            /\ ~FastPath'
            /\ err'[t] \in ConnectErrs
       /\ (pc[t] = "call" /\ pc'[t] # "call" /\ ~FastPath
             /\ (variant = "plain" \/ InAttempt = {})) =>
            pc'[t] = "try"
       /\ (pc[t] = "awaitConnect" /\ pc'[t] # "awaitConnect" /\ drv = "ok") =>
            /\ pc'[t] = "ret"
            /\ got'[t] = session
            /\ FastPath'
            /\ cachedConnection' = got'[t]
       /\ (pc[t] = "call" /\ pc'[t] # "call" /\ FastPath) =>
            /\ pc'[t] = "ret"
            /\ tries'[t] = 0
            /\ got'[t] = cachedConnection
    ]_vars

\* After a call was rejected by a driver error, a later call made its own
\* attempt, cached the handle, and a third call has just returned the cached
\* handle on the fast path.
C19_Witness ==
  /\ batchFails >= 1
  /\ cachedConnection # NoHandle
  /\ readyState = 1
  /\ session >= 2
  /\ \E t \in Tasks :
       /\ pc[t] = "ret"
       /\ tries[t] = 0
       /\ got[t] = cachedConnection

====
